---- MODULE Spec2Model ----
(***************************************************************************)
(* Model of the task storage layer of kanban-local (server/storage.ts,     *)
(* class DatabaseStorage) together with the seed data and the task routes  *)
(* of server/routes.ts.                                                    *)
(*                                                                         *)
(* Every storage method is an async function: each `await db...` is one    *)
(* atomic statement executed by PostgreSQL, and the JavaScript between two *)
(* awaits runs without interruption.  A call is therefore modelled as a    *)
(* small program counter walking through its awaits; calls of different    *)
(* HTTP requests interleave at the awaits.                                 *)
(*                                                                         *)
(* Rows carry the columns id, title, stageId, archived, status, priority,  *)
(* effort, updatedAt, createdAt and history.  The columns description,     *)
(* dueDate, tags, parentTaskId and recurrence are plain columns that the   *)
(* storage layer treats exactly like title and are left out.               *)
(* Timestamps are integers (milliseconds of the server clock); a SQL NULL  *)
(* effort is written NullEffort.                                           *)
(***************************************************************************)
EXTENDS Integers, Sequences, FiniteSets, TLC

VARIABLES
  stages,      \* table stages: id -> row
  tasks,       \* table tasks: id -> row (DOMAIN tasks = ids stored)
  nextTaskId,  \* the serial of tasks.id
  nextStageId, \* the serial of stages.id
  now,         \* the server clock
  calls,       \* the storage calls issued so far, in order of invocation
  board        \* the KanbanBoard component of one browser: its props and state

vars == <<stages, tasks, nextTaskId, nextStageId, now, calls, board>>

(***************************************************************************)
(* Bounds                                                                  *)
(***************************************************************************)
MaxCalls == 2
MaxClock == 2
MaxStages == 4

(***************************************************************************)
(* Strings.  A stage name is a sequence of characters so that toLowerCase  *)
(* and includes are computed as JavaScript computes them.                  *)
(***************************************************************************)
UpperToLower ==
  [A |-> "a", B |-> "b", C |-> "c", D |-> "d", E |-> "e", F |-> "f", G |-> "g",
   H |-> "h", I |-> "i", J |-> "j", K |-> "k", L |-> "l", M |-> "m", N |-> "n",
   O |-> "o", P |-> "p", Q |-> "q", R |-> "r", S |-> "s", T |-> "t", U |-> "u",
   V |-> "v", W |-> "w", X |-> "x", Y |-> "y", Z |-> "z"]

toLowerCase(s) ==
  [i \in DOMAIN s |-> IF s[i] \in DOMAIN UpperToLower THEN UpperToLower[s[i]] ELSE s[i]]

includes(s, sub) ==
  \E i \in 1..(Len(s) - Len(sub) + 1) : SubSeq(s, i, i + Len(sub) - 1) = sub

kw_progress == <<"p", "r", "o", "g", "r", "e", "s", "s">>
kw_doing    == <<"d", "o", "i", "n", "g">>
kw_active   == <<"a", "c", "t", "i", "v", "e">>
kw_done     == <<"d", "o", "n", "e">>
kw_complete == <<"c", "o", "m", "p", "l", "e", "t", "e">>
kw_finished == <<"f", "i", "n", "i", "s", "h", "e", "d">>
kw_abandon  == <<"a", "b", "a", "n", "d", "o", "n">>
kw_cancel   == <<"c", "a", "n", "c", "e", "l">>

\* stage names of the seed data and of the spec's scenarios
Name_Backlog    == <<"B", "a", "c", "k", "l", "o", "g">>
Name_InProgress == <<"I", "n", " ", "P", "r", "o", "g", "r", "e", "s", "s">>
Name_Done       == <<"D", "o", "n", "e">>
Name_CANCELLED  == <<"C", "A", "N", "C", "E", "L", "L", "E", "D">>
Name_DoneActive == <<"D", "o", "n", "e", " ", "A", "c", "t", "i", "v", "e">>

Statuses == {"backlog", "in_progress", "done", "abandoned"}

\* the chain with the done branch before the progress branch
inferStatus_doneFirst(stageName) ==
  LET name == toLowerCase(stageName) IN
  IF includes(name, kw_done) \/ includes(name, kw_complete) \/ includes(name, kw_finished)
    THEN "done"
  ELSE IF includes(name, kw_progress) \/ includes(name, kw_doing) \/ includes(name, kw_active)
    THEN "in_progress"
  ELSE IF includes(name, kw_abandon) \/ includes(name, kw_cancel)
    THEN "abandoned"
  ELSE "backlog"

\* the if / else-if chain of createTask; "backlog" is what initialStatus
\* keeps when no branch is taken
inferStatus(stageName) ==
  LET name == toLowerCase(stageName) IN
  IF includes(name, kw_progress) \/ includes(name, kw_doing) \/ includes(name, kw_active)
    THEN "in_progress"
  ELSE IF includes(name, kw_done) \/ includes(name, kw_complete) \/ includes(name, kw_finished)
    THEN "done"
  ELSE IF includes(name, kw_abandon) \/ includes(name, kw_cancel)
    THEN "abandoned"
  ELSE "backlog"

\* KanbanBoard.tsx: getStatusFromStageName
getStatusFromStageName(stageName) ==
  LET name == toLowerCase(stageName) IN
  IF includes(name, kw_progress) \/ includes(name, kw_doing) \/ includes(name, kw_active)
    THEN "in_progress"
  ELSE IF includes(name, kw_done) \/ includes(name, kw_complete) \/ includes(name, kw_finished)
    THEN "done"
  ELSE IF includes(name, kw_abandon) \/ includes(name, kw_cancel)
    THEN "abandoned"
  ELSE "backlog"

\* Dashboard.tsx: getTaskStatus for a task without a status, whose stage is
\* found under the name stageName
getTaskStatus(stageName) ==
  LET name == toLowerCase(stageName) IN
  IF includes(name, kw_progress) \/ includes(name, kw_doing) \/ includes(name, kw_active)
    THEN "in_progress"
  ELSE IF includes(name, kw_done) \/ includes(name, kw_complete) \/ includes(name, kw_finished)
    THEN "done"
  ELSE "backlog"

\* name ILIKE '%pattern%'
ilike(name, pattern) == includes(toLowerCase(name), pattern)

\* add-enhanced-task-fields.ts: the statuses the CASE of the migration can
\* give a task of stage stageId.  Each subquery is LIMIT 1 without ORDER BY:
\* it yields any one of the matching stages, or NULL when none matches.
migrationStatuses(stgs, stageId) ==
  LET doneIds == {i \in DOMAIN stgs :
                    ilike(stgs[i].name, kw_done) \/ ilike(stgs[i].name, kw_complete)}
      progressIds == {i \in DOMAIN stgs :
                        ilike(stgs[i].name, kw_progress) \/ ilike(stgs[i].name, kw_doing)}
      NULL == 0
      picks(ids) == IF ids = {} THEN {NULL} ELSE ids
  IN { IF stageId = d THEN "done"
       ELSE IF stageId = g THEN "in_progress"
       ELSE "backlog" : <<d, g>> \in picks(doneIds) \X picks(progressIds) }

(***************************************************************************)
(* Objects and rows                                                        *)
(***************************************************************************)
NoRow == <<>>          \* undefined: no row / no value
NullEffort == 0        \* SQL NULL in tasks.effort

\* { ...a, ...b }
Spread(a, b) ==
  [k \in (DOMAIN a) \cup (DOMAIN b) |-> IF k \in DOMAIN b THEN b[k] ELSE a[k]]

\* an object without the key k (a key whose value is undefined is skipped
\* by drizzle's set())
Without(a, k) == [j \in (DOMAIN a) \ {k} |-> a[j]]

\* UPDATE ... SET data: the columns named in data are overwritten
SetRow(row, data) ==
  [k \in DOMAIN row |-> IF k \in DOMAIN data THEN data[k] ELSE row[k]]

\* a clock reading of a clock that may also have been set back
ClockReads_setBack(t) == {u \in {t - 1, t, t + 1} : 0 <= u /\ u <= MaxClock}

\* a clock reading: the clock never goes back and may have advanced
ClockReads(t) == {u \in {t, t + 1} : u <= MaxClock}

IsPrefix(s, t) == Len(s) <= Len(t) /\ SubSeq(t, 1, Len(s)) = s

(***************************************************************************)
(* createTask, the part between the stage lookup and the insert            *)
(***************************************************************************)
initialStatusOf(insertTask, stage) ==
  IF "status" \in DOMAIN insertTask THEN insertTask.status
  ELSE IF "stageId" \in DOMAIN insertTask /\ insertTask.stageId # 0 /\ stage # NoRow
    THEN inferStatus(stage.name)
  ELSE "backlog"

createTaskData(insertTask, stage, tEntry, tUpdated) ==
  LET initialStatus == initialStatusOf(insertTask, stage)
      history == << [status |-> initialStatus, timestamp |-> tEntry] >>
  IN Spread(insertTask,
            [status |-> initialStatus,
             priority |-> IF "priority" \in DOMAIN insertTask THEN insertTask.priority
                          ELSE "normal",
             history |-> history,
             updatedAt |-> tUpdated])

\* INSERT ... RETURNING: the serial id and the column defaults of the table
insertRow(id, taskData, tInsert) ==
  SetRow([id |-> id, title |-> "", stageId |-> 0, archived |-> FALSE,
          status |-> "backlog", priority |-> "normal", effort |-> NullEffort,
          updatedAt |-> tInsert, createdAt |-> tInsert, history |-> <<>>],
         taskData)

(***************************************************************************)
(* Seed data of registerRoutes, written on an empty database at time 0     *)
(***************************************************************************)
SeedStages ==
  (1 :> [id |-> 1, name |-> Name_Backlog, order |-> 1]) @@
  (2 :> [id |-> 2, name |-> Name_InProgress, order |-> 2]) @@
  (3 :> [id |-> 3, name |-> Name_Done, order |-> 3])

SeedPayload(i) ==
  IF i = 1 THEN [title |-> "Research competitors", stageId |-> 1]
  ELSE IF i = 2 THEN [title |-> "Set up project repo", stageId |-> 2]
  ELSE [title |-> "Ideation phase", stageId |-> 3]

SeedTasks ==
  [i \in 1..3 |-> insertRow(i, createTaskData(SeedPayload(i), SeedStages[SeedPayload(i).stageId], 0, 0), 0)]

(***************************************************************************)
(* Calls.  A call is one invocation of a storage method by a route handler *)
(***************************************************************************)
\* the ids of a set in ascending order
RECURSIVE orderById(_)
orderById(ids) ==
  IF ids = {} THEN <<>>
  ELSE LET least == CHOOSE i \in ids : \A j \in ids : i <= j
       IN <<least>> \o orderById(ids \ {least})

\* getTasks: select().from(tasks).where(eq(tasks.archived, false)).orderBy(tasks.id)
getTasks(table) ==
  LET ids == orderById({i \in DOMAIN table : ~table[i].archived})
  IN [k \in DOMAIN ids |-> table[ids[k]]]

\* the board as mounted with a fetched task list: useState(tasks), and no
\* archive mutation pending
mountedBoard(taskList) ==
  [tasks |-> taskList, activeTasks |-> taskList, mutation |-> NoRow]

newCall(op, id, updates) ==
  [op |-> op, id |-> id, updates |-> updates,
   pc |-> IF op \in {"updateTask", "archiveTask"} THEN "select"
          ELSE IF op = "unarchiveTask" THEN "compute"
          ELSE IF op = "deleteTask" THEN "delete"
          ELSE IF op = "getHistory" THEN "get"
          ELSE IF "status" \notin DOMAIN updates /\ updates.stageId # 0 THEN "stage"
          ELSE "build",
   cur |-> NoRow,        \* currentTask (createTask: the stage row)
   data |-> NoRow,       \* updateData / taskData
   ret |-> NoRow,        \* the returned row
   result |-> "pending", \* "ok" | "undefined" | "error" once returned
   \* bookkeeping for the properties, never read by an action's guard
   before |-> NoRow,     \* the row stored immediately before this call's write
   acked |-> {},         \* the calls that had returned a row before this call's write
   stale |-> FALSE]      \* a write to the row committed after this call's select

Init ==
  /\ stages = SeedStages
  /\ tasks = SeedTasks
  /\ nextTaskId = 4
  /\ nextStageId = 4
  /\ now = 0
  /\ calls = <<>>
  /\ board = mountedBoard(getTasks(SeedTasks))

\* a route handler invokes a storage method
StartCall(op, id, updates) ==
  /\ Len(calls) < MaxCalls
  /\ calls' = Append(calls, newCall(op, id, updates))
  /\ UNCHANGED <<board, stages, tasks, nextTaskId, nextStageId, now>>

\* const [currentTask] = await db.select().from(tasks).where(eq(tasks.id, id));
\* if (!currentTask) return undefined;
SelectTask(c) ==
  /\ calls[c].pc = "select"
  /\ calls' = [calls EXCEPT ![c] =
       IF calls[c].id \in DOMAIN tasks
         THEN [@ EXCEPT !.cur = tasks[calls[c].id], !.pc = "compute"]
         ELSE [@ EXCEPT !.result = "undefined", !.pc = "done"]]
  /\ UNCHANGED <<board, stages, tasks, nextTaskId, nextStageId, now>>

\* a status in the patch counts as a change whatever the stored status is
statusChanged_always(currentTask, updates) == "status" \in DOMAIN updates

\* const statusChanged = updates.status && updates.status !== currentTask.status;
statusChanged(currentTask, updates) ==
  "status" \in DOMAIN updates /\ updates.status # currentTask.status

\* updateData as a whole-record write: the snapshot's columns are written
\* back together with the patch
updateData_wholeRecord(currentTask, updates, tEntry, tUpdated) ==
  LET history == IF "status" \in DOMAIN updates /\ updates.status # currentTask.status
                   THEN Append(currentTask.history,
                               [status |-> updates.status, timestamp |-> tEntry])
                   ELSE currentTask.history
  IN Spread(Spread(currentTask, updates), [updatedAt |-> tUpdated, history |-> history])

\* updateTask between its two awaits
updateData(currentTask, updates, tEntry, tUpdated) ==
  LET history == IF statusChanged(currentTask, updates)
                   THEN Append(currentTask.history,
                               [status |-> updates.status, timestamp |-> tEntry])
                   ELSE currentTask.history
      data == Spread(updates, [updatedAt |-> tUpdated, history |-> history])
  IN IF Len(history) > 0 THEN data ELSE Without(data, "history")

\* updateTask appending a history entry without the statusChanged guard
ComputeUpdate_unguardedEntry(c) ==
  /\ calls[c].pc = "compute" /\ calls[c].op = "updateTask"
  /\ \E tEntry \in ClockReads(now) : \E tUpdated \in ClockReads(tEntry) :
       /\ calls' = [calls EXCEPT ![c] =
            [@ EXCEPT !.data =
                 Spread(calls[c].updates,
                        [updatedAt |-> tUpdated,
                         history |-> Append(calls[c].cur.history,
                                            Spread(calls[c].updates, [timestamp |-> tEntry]))]),
                      !.pc = "write"]]
       /\ now' = tUpdated
  /\ UNCHANGED <<board, stages, tasks, nextTaskId, nextStageId>>

ComputeUpdate(c) ==
  /\ calls[c].pc = "compute" /\ calls[c].op = "updateTask"
  /\ \E tEntry \in ClockReads(now) : \E tUpdated \in ClockReads(tEntry) :
       /\ calls' = [calls EXCEPT ![c] =
            [@ EXCEPT !.data = updateData(calls[c].cur, calls[c].updates, tEntry, tUpdated),
                      !.pc = "write"]]
       /\ now' = tUpdated
  /\ UNCHANGED <<board, stages, tasks, nextTaskId, nextStageId>>

\* archiveTask writing a history that holds the archive entry alone
archiveData_entryAlone(currentTask, tEntry, tUpdated) ==
  LET historyEntry == [status |-> currentTask.status, timestamp |-> tEntry,
                       note |-> "Archived"]
  IN [archived |-> TRUE, updatedAt |-> tUpdated, history |-> <<historyEntry>>]

\* archiveTask between its two awaits
archiveData(currentTask, tEntry, tUpdated) ==
  LET historyEntry == [status |-> currentTask.status, timestamp |-> tEntry,
                       note |-> "Archived"]
  IN [archived |-> TRUE, updatedAt |-> tUpdated,
      history |-> Append(currentTask.history, historyEntry)]

ComputeArchive(c) ==
  /\ calls[c].pc = "compute" /\ calls[c].op = "archiveTask"
  /\ \E tEntry \in ClockReads(now) : \E tUpdated \in ClockReads(tEntry) :
       /\ calls' = [calls EXCEPT ![c] =
            [@ EXCEPT !.data = archiveData(calls[c].cur, tEntry, tUpdated),
                      !.pc = "write"]]
       /\ now' = tUpdated
  /\ UNCHANGED <<board, stages, tasks, nextTaskId, nextStageId>>

\* unarchiveTask putting the task back into the backlog as well
unarchiveData_toBacklog(tUpdated) ==
  [archived |-> FALSE, updatedAt |-> tUpdated, status |-> "backlog"]

\* unarchiveTask before its await
unarchiveData(tUpdated) == [archived |-> FALSE, updatedAt |-> tUpdated]

ComputeUnarchive(c) ==
  /\ calls[c].pc = "compute" /\ calls[c].op = "unarchiveTask"
  /\ \E tUpdated \in ClockReads(now) :
       /\ calls' = [calls EXCEPT ![c] =
            [@ EXCEPT !.data = unarchiveData(tUpdated), !.pc = "write"]]
       /\ now' = tUpdated
  /\ UNCHANGED <<board, stages, tasks, nextTaskId, nextStageId>>

\* what a committed write to row id does to the other calls: every call
\* holding a snapshot of that row now holds a stale one
markStale(cs, c, id) ==
  [d \in DOMAIN cs |->
     IF d # c /\ cs[d].id = id /\ cs[d].op \in {"updateTask", "archiveTask"}
        /\ cs[d].pc \in {"compute", "write"}
       THEN [cs[d] EXCEPT !.stale = TRUE]
       ELSE cs[d]]

returned(cs) == {d \in DOMAIN cs : cs[d].pc = "done" /\ cs[d].result = "ok"}

\* WriteTask as an upsert: a missing row is inserted instead of skipped
WriteTask_upsert(c) ==
  LET id == calls[c].id
      row == IF id \in DOMAIN tasks THEN SetRow(tasks[id], calls[c].data)
             ELSE insertRow(id, calls[c].data, now)
  IN
  /\ calls[c].pc = "write"
  /\ tasks' = (id :> row) @@ tasks
  /\ calls' = [markStale(calls, c, id) EXCEPT ![c] =
       [@ EXCEPT !.ret = row, !.result = "ok", !.pc = "done",
                 !.before = IF id \in DOMAIN tasks THEN tasks[id] ELSE NoRow,
                 !.acked = returned(calls)]]
  /\ UNCHANGED <<board, stages, nextTaskId, nextStageId, now>>

\* await db.update(tasks).set(data).where(eq(tasks.id, id)).returning()
\* of updateTask, archiveTask and unarchiveTask, and the return
WriteTask(c) ==
  LET id == calls[c].id IN
  /\ calls[c].pc = "write"
  /\ IF id \in DOMAIN tasks
       THEN LET row == SetRow(tasks[id], calls[c].data) IN
            /\ tasks' = [tasks EXCEPT ![id] = row]
            /\ calls' = [markStale(calls, c, id) EXCEPT ![c] =
                 [@ EXCEPT !.ret = row, !.result = "ok", !.pc = "done",
                           !.before = tasks[id], !.acked = returned(calls)]]
       ELSE /\ tasks' = tasks
            /\ calls' = [calls EXCEPT ![c] =
                 [@ EXCEPT !.result = "undefined", !.pc = "done"]]
  /\ UNCHANGED <<board, stages, nextTaskId, nextStageId, now>>

\* createTask: const [stage] = await db.select().from(stages).where(...)
SelectStage(c) ==
  /\ calls[c].pc = "stage"
  /\ calls' = [calls EXCEPT ![c] =
       [@ EXCEPT !.cur = IF calls[c].updates.stageId \in DOMAIN stages
                           THEN stages[calls[c].updates.stageId] ELSE NoRow,
                 !.pc = "build"]]
  /\ UNCHANGED <<board, stages, tasks, nextTaskId, nextStageId, now>>

\* createTask: history and taskData
BuildCreate(c) ==
  /\ calls[c].pc = "build"
  /\ \E tEntry \in ClockReads(now) : \E tUpdated \in ClockReads(tEntry) :
       /\ calls' = [calls EXCEPT ![c] =
            [@ EXCEPT !.data = createTaskData(calls[c].updates, calls[c].cur, tEntry, tUpdated),
                      !.pc = "insert"]]
       /\ now' = tUpdated
  /\ UNCHANGED <<board, stages, tasks, nextTaskId, nextStageId>>

\* createTask: await db.insert(tasks).values(taskData).returning().  The
\* serial is drawn before the foreign key on stage_id is checked; a
\* violated foreign key makes the statement throw.
InsertTask(c) ==
  /\ calls[c].pc = "insert"
  /\ nextTaskId' = nextTaskId + 1
  /\ IF calls[c].data.stageId \in DOMAIN stages
       THEN \E tInsert \in ClockReads(now) :
            LET row == insertRow(nextTaskId, calls[c].data, tInsert) IN
            /\ tasks' = (nextTaskId :> row) @@ tasks
            /\ now' = tInsert
            /\ calls' = [calls EXCEPT ![c] =
                 [@ EXCEPT !.id = nextTaskId, !.ret = row, !.result = "ok", !.pc = "done"]]
       ELSE /\ UNCHANGED <<tasks, now>>
            /\ calls' = [calls EXCEPT ![c] = [@ EXCEPT !.result = "error", !.pc = "done"]]
  /\ UNCHANGED <<board, stages, nextStageId>>

\* deleteTask: await db.delete(tasks).where(eq(tasks.id, id))
DeleteTask(c) ==
  LET id == calls[c].id IN
  /\ calls[c].pc = "delete"
  /\ tasks' = [i \in (DOMAIN tasks) \ {id} |-> tasks[i]]
  /\ calls' = [(IF id \in DOMAIN tasks THEN markStale(calls, c, id) ELSE calls)
                 EXCEPT ![c] = [@ EXCEPT !.result = "ok", !.pc = "done",
                                         !.before = IF id \in DOMAIN tasks THEN tasks[id]
                                                    ELSE NoRow]]
  /\ UNCHANGED <<board, stages, nextTaskId, nextStageId, now>>

\* res.json(task.history || []) with the newest entry first
historyJson_newestFirst(task) ==
  [i \in DOMAIN task.history |-> task.history[Len(task.history) + 1 - i]]

\* res.json(task.history || []); a NULL history is written <<>> as is []
historyJson(task) == task.history

\* GET /api/tasks/:id/history: const task = await storage.getTaskById(id);
\* 404 if there is none, else the history
GetHistory(c) ==
  /\ calls[c].pc = "get"
  /\ calls' = [calls EXCEPT ![c] =
       IF calls[c].id \in DOMAIN tasks
         THEN [@ EXCEPT !.cur = tasks[calls[c].id], !.ret = historyJson(tasks[calls[c].id]),
                        !.result = "ok", !.pc = "done"]
         ELSE [@ EXCEPT !.result = "undefined", !.pc = "done"]]
  /\ UNCHANGED <<board, stages, tasks, nextTaskId, nextStageId, now>>

(***************************************************************************)
(* Stages: createStage and updateStage are one statement each              *)
(***************************************************************************)
\* await db.insert(stages).values(stageData).returning()
createStage(name, order) ==
  /\ nextStageId <= MaxStages
  /\ stages' = (nextStageId :> [id |-> nextStageId, name |-> name, order |-> order]) @@ stages
  /\ nextStageId' = nextStageId + 1
  /\ UNCHANGED <<board, tasks, nextTaskId, now, calls>>

\* await db.update(stages).set(updateData).where(eq(stages.id, id)).returning()
updateStage(id, updates) ==
  /\ id \in DOMAIN stages
  /\ stages[id] # SetRow(stages[id], updates)
  /\ stages' = [stages EXCEPT ![id] = SetRow(stages[id], updates)]
  /\ UNCHANGED <<board, tasks, nextTaskId, nextStageId, now, calls>>

(***************************************************************************)
(* Route handlers: the status code sent for what the storage call returned *)
(***************************************************************************)
\* PATCH /api/tasks/:id
patchResponse(result) ==
  IF result = "ZodError" THEN 400
  ELSE IF result = "undefined" THEN 404 ELSE IF result = "ok" THEN 200 ELSE 500

\* POST /api/tasks
postResponse(result) ==
  IF result = "ZodError" THEN 400 ELSE IF result = "ok" THEN 201 ELSE 500

\* DELETE /api/tasks/:id
deleteResponse(result) == 204

\* GET /api/tasks/:id/history
historyResponse(result) == IF result = "undefined" THEN 404 ELSE 200

\* taskPriorityEnum
Priorities == {"low", "normal", "high", "critical"}

\* insertTaskSchema.partial() with status a free text column
updateInputParses_statusText(body) ==
  /\ "priority" \in DOMAIN body => body.priority \in Priorities
  /\ "effort" \in DOMAIN body => body.effort \in 1..5 \cup {NullEffort}

\* api.tasks.update.input.parse(req.body) does not throw
updateInputParses(body) ==
  /\ "status" \in DOMAIN body => body.status \in Statuses
  /\ "priority" \in DOMAIN body => body.priority \in Priorities
  /\ "effort" \in DOMAIN body => body.effort \in 1..5 \cup {NullEffort}

\* the keys of insertTaskSchema: the columns of tasks without id, createdAt
\* and updatedAt (the model's rows carry the columns below)
InsertTaskKeys ==
  {"title", "stageId", "archived", "status", "priority", "effort", "history"}

\* a schema that lets unknown keys through
parsedInput_passthrough(body) == body

\* what parse returns: a zod object drops the keys that are not in its shape
parsedInput(body) == [k \in (DOMAIN body) \cap InsertTaskKeys |-> body[k]]

\* api.tasks.create.input.parse(req.body) does not throw
createInputParses(body) ==
  /\ "title" \in DOMAIN body /\ "stageId" \in DOMAIN body
  /\ updateInputParses(body)

\* POST /api/tasks: the body is parsed, and only then createTask is called
PostTask(body) ==
  /\ Len(calls) < MaxCalls
  /\ calls' = Append(calls,
       IF createInputParses(body) THEN newCall("createTask", 0, parsedInput(body))
       ELSE [newCall("createTask", 0, body) EXCEPT !.result = "ZodError", !.pc = "done"])
  /\ UNCHANGED <<board, stages, tasks, nextTaskId, nextStageId, now>>

\* PATCH /api/tasks/:id: the body is parsed, and only then updateTask is called
PatchTask(id, body) ==
  /\ Len(calls) < MaxCalls
  /\ calls' = Append(calls,
       IF updateInputParses(body) THEN newCall("updateTask", id, parsedInput(body))
       ELSE [newCall("updateTask", id, body) EXCEPT !.result = "ZodError", !.pc = "done"])
  /\ UNCHANGED <<board, stages, tasks, nextTaskId, nextStageId, now>>

(***************************************************************************)
(* The board (client/src/components/KanbanBoard.tsx)                       *)
(***************************************************************************)
\* tasks.filter(t => t.id !== id)
withoutTask(list, id) == SelectSeq(list, LAMBDA t : t.id # id)

\* handleDragEnd with over.id === "archive": the task is taken out of the
\* local list and archiveTask.mutate sends the request, which the server
\* serves with storage.archiveTask
DropOnArchive(id) ==
  /\ board.mutation = NoRow
  /\ Len(calls) < MaxCalls
  /\ \E k \in DOMAIN board.activeTasks :
       /\ board.activeTasks[k].id = id
       /\ board' = [board EXCEPT
            !.activeTasks = withoutTask(board.activeTasks, id),
            !.mutation = [call |-> Len(calls) + 1, activeTask |-> board.activeTasks[k]]]
  /\ calls' = Append(calls, newCall("archiveTask", id, NoRow))
  /\ UNCHANGED <<stages, tasks, nextTaskId, nextStageId, now>>

\* the request fails (no connection, or a response that is not ok); onError:
\* setActiveTasks(tasks => [...tasks, activeTask])
ArchiveOnError ==
  /\ board.mutation # NoRow
  /\ calls[board.mutation.call].result # "ok"
  /\ board' = [board EXCEPT
       !.activeTasks = Append(board.activeTasks, board.mutation.activeTask),
       !.mutation = NoRow]
  /\ UNCHANGED <<stages, tasks, nextTaskId, nextStageId, now, calls>>

\* the response is ok; onSuccess only logs and invalidates the queries
ArchiveOnSuccess ==
  /\ board.mutation # NoRow
  /\ calls[board.mutation.call].result = "ok"
  /\ board' = [board EXCEPT !.mutation = NoRow]
  /\ UNCHANGED <<stages, tasks, nextTaskId, nextStageId, now, calls>>

\* the task list is fetched again and handed to the board as a new tasks
\* array; useMemo(() => { setActiveTasks(tasks) }, [tasks])
SyncTasks ==
  /\ board' = [board EXCEPT !.tasks = getTasks(tasks), !.activeTasks = getTasks(tasks)]
  /\ UNCHANGED <<stages, tasks, nextTaskId, nextStageId, now, calls>>

(***************************************************************************)
(* Requests                                                                *)
(***************************************************************************)
Request(op, id, updates) == [op |-> op, id |-> id, updates |-> updates]

\* the patches of scripts/reproduce-task-update-crash.ts (runConcurrentUpdates)
\* and of the spec's scenarios
UpdatePatches ==
  { [status |-> "in_progress", title |-> "Updated"],
    [status |-> "done", title |-> "Batch update"],
    [status |-> "backlog", priority |-> "critical"],
    [priority |-> "high"],
    [priority |-> "low"],
    [effort |-> 3],
    [title |-> "Research competitors"] }

UpdateRequests == { Request("updateTask", 1, u) : u \in UpdatePatches }

TaskRequests ==
  { Request("updateTask", 1, [status |-> "in_progress", title |-> "Updated"]),
    Request("updateTask", 1, [status |-> "done", title |-> "Batch update"]),
    Request("updateTask", 1, [priority |-> "high"]),
    Request("updateTask", 1, [title |-> "Research competitors"]),
    Request("updateTask", 4, [status |-> "done"]),
    Request("archiveTask", 1, NoRow),
    Request("archiveTask", 3, NoRow),
    Request("unarchiveTask", 1, NoRow),
    Request("deleteTask", 1, NoRow),
    Request("createTask", 0, [title |-> "New task", stageId |-> 2]),
    Request("createTask", 0, [title |-> "New task", stageId |-> 9, status |-> "done"]) }

CreateRequests ==
  { Request("createTask", 0, [title |-> "New task", stageId |-> i]) : i \in {1, 4} }
  \cup
  { Request("createTask", 0, [title |-> "New task", stageId |-> 2, status |-> "abandoned",
                               history |-> << [status |-> "done", timestamp |-> 0, note |-> "x"] >>]) }

StageNames == {Name_CANCELLED, Name_DoneActive}

(***************************************************************************)
(* Specifications                                                          *)
(***************************************************************************)
\* every task operation, interleaved
Next ==
  \/ \E r \in TaskRequests : StartCall(r.op, r.id, r.updates)
  \/ \E c \in DOMAIN calls : SelectTask(c)
  \/ \E c \in DOMAIN calls : ComputeUpdate(c)
  \/ \E c \in DOMAIN calls : ComputeArchive(c)
  \/ \E c \in DOMAIN calls : ComputeUnarchive(c)
  \/ \E c \in DOMAIN calls : WriteTask(c)
  \/ \E c \in DOMAIN calls : SelectStage(c)
  \/ \E c \in DOMAIN calls : BuildCreate(c)
  \/ \E c \in DOMAIN calls : InsertTask(c)
  \/ \E c \in DOMAIN calls : DeleteTask(c)

Spec == Init /\ [][Next]_vars

\* concurrent PATCH requests on the seeded task 1
NextUpdate ==
  \/ \E r \in UpdateRequests : StartCall(r.op, r.id, r.updates)
  \/ \E c \in DOMAIN calls : SelectTask(c)
  \/ \E c \in DOMAIN calls : ComputeUpdate(c)
  \/ \E c \in DOMAIN calls : WriteTask(c)

SpecUpdate == Init /\ [][NextUpdate]_vars

\* POST /api/tasks while stages are created and renamed
NextCreate ==
  \/ \E r \in CreateRequests : StartCall(r.op, r.id, r.updates)
  \/ \E c \in DOMAIN calls : SelectStage(c)
  \/ \E c \in DOMAIN calls : BuildCreate(c)
  \/ \E c \in DOMAIN calls : InsertTask(c)
  \/ \E n \in StageNames : createStage(n, 4)
  \/ updateStage(1, [name |-> Name_Done])

SpecCreate == Init /\ [][NextCreate]_vars

\* GET /api/tasks/1/history while task 1 is updated, archived and deleted
HistoryRequests ==
  { Request("getHistory", 1, NoRow),
    Request("updateTask", 1, [status |-> "in_progress", title |-> "Updated"]),
    Request("updateTask", 1, [status |-> "done", title |-> "Batch update"]),
    Request("archiveTask", 1, NoRow),
    Request("deleteTask", 1, NoRow) }

NextHistory ==
  \/ \E r \in HistoryRequests : StartCall(r.op, r.id, r.updates)
  \/ \E c \in DOMAIN calls : GetHistory(c)
  \/ \E c \in DOMAIN calls : SelectTask(c)
  \/ \E c \in DOMAIN calls : ComputeUpdate(c)
  \/ \E c \in DOMAIN calls : ComputeArchive(c)
  \/ \E c \in DOMAIN calls : WriteTask(c)
  \/ \E c \in DOMAIN calls : DeleteTask(c)

SpecHistory == Init /\ [][NextHistory]_vars

\* PATCH bodies, some of which the schema rejects
PatchBodies ==
  { [status |-> "in_progress", title |-> "Updated"],
    [priority |-> "high"],
    [status |-> "archived"],
    [status |-> "done", priority |-> "urgent"],
    [title |-> "Updated", effort |-> 9],
    [stageId |-> 3],
    [archived |-> TRUE] }

NextPatch ==
  \/ \E id \in {1, 4} : \E body \in PatchBodies : PatchTask(id, body)
  \/ \E c \in DOMAIN calls : SelectTask(c)
  \/ \E c \in DOMAIN calls : ComputeUpdate(c)
  \/ \E c \in DOMAIN calls : WriteTask(c)

SpecPatch == Init /\ [][NextPatch]_vars

\* words a user may put into a stage name, in the spellings users type
Word_Active    == <<"A", "c", "t", "i", "v", "e">>
Word_DOING     == <<"D", "O", "I", "N", "G">>
Word_progress  == <<"p", "r", "o", "g", "r", "e", "s", "s">>
Word_Undone    == <<"U", "n", "d", "o", "n", "e">>
Word_COMPLETED == <<"C", "O", "M", "P", "L", "E", "T", "E", "D">>
Word_Finished  == <<"F", "i", "n", "i", "s", "h", "e", "d">>
Word_Abandoned == <<"A", "b", "a", "n", "d", "o", "n", "e", "d">>
Word_cancel    == <<"c", "a", "n", "c", "e", "l">>
Word_Todo      == <<"T", "o", "d", "o">>
Word_Finish    == <<"F", "i", "n", "i", "s", "h">>

Words ==
  { Word_Active, Word_DOING, Word_progress, Word_Undone, Word_COMPLETED,
    Word_Finished, Word_Abandoned, Word_cancel, Word_Todo, Word_Finish }

\* stage names of one word or of two words
InferNames ==
  Words \cup { a \o <<" ">> \o b : a \in {Word_Active, Word_Undone, Word_Abandoned, Word_Todo},
                                  b \in Words }

\* the body of a POST /api/tasks into stage 1, without a status
InferPayload == [title |-> "New task", stageId |-> 1]

\* the seed data after PUT /api/stages/1 has given stage 1 the name n; the
\* body posted afterwards is one the schema accepts and leaves as it is
InitInfer ==
  /\ createInputParses(InferPayload) /\ parsedInput(InferPayload) = InferPayload
  /\ \E n \in InferNames :
       stages = [SeedStages EXCEPT ![1] = [@ EXCEPT !.name = n]]
  /\ tasks = SeedTasks
  /\ nextTaskId = 4
  /\ nextStageId = 4
  /\ now = 0
  /\ calls = <<>>
  /\ board = mountedBoard(getTasks(SeedTasks))

\* POST /api/tasks into the renamed stage, without a status
NextInfer ==
  \/ StartCall("createTask", 0, InferPayload)
  \/ \E c \in DOMAIN calls : SelectStage(c)
  \/ \E c \in DOMAIN calls : BuildCreate(c)
  \/ \E c \in DOMAIN calls : InsertTask(c)

SpecInfer == InitInfer /\ [][NextInfer]_vars

\* a history as a caller may put it into a request body
PayloadHistory == << [status |-> "done", timestamp |-> 0, note |-> "x"] >>

\* request bodies that name id, createdAt or history
PayloadPatches ==
  { [title |-> "Updated", id |-> 2],
    [priority |-> "high", createdAt |-> 1],
    [title |-> "Updated", history |-> PayloadHistory],
    [status |-> "done", history |-> PayloadHistory] }

PayloadPosts ==
  { [title |-> "New task", stageId |-> 2, id |-> 1, createdAt |-> 1],
    [title |-> "New task", stageId |-> 3, history |-> PayloadHistory],
    [title |-> "New task", stageId |-> 1, priority |-> "urgent"] }

NextPayload ==
  \/ \E body \in PayloadPatches : PatchTask(1, body)
  \/ \E body \in PayloadPosts : PostTask(body)
  \/ \E c \in DOMAIN calls : SelectTask(c)
  \/ \E c \in DOMAIN calls : ComputeUpdate(c)
  \/ \E c \in DOMAIN calls : WriteTask(c)
  \/ \E c \in DOMAIN calls : SelectStage(c)
  \/ \E c \in DOMAIN calls : BuildCreate(c)
  \/ \E c \in DOMAIN calls : InsertTask(c)

SpecPayload == Init /\ [][NextPayload]_vars

\* one board on which tasks are dropped on the archive zone
NextBoard ==
  \/ \E id \in DOMAIN SeedTasks : DropOnArchive(id)
  \/ ArchiveOnError
  \/ ArchiveOnSuccess
  \/ SyncTasks
  \/ \E c \in DOMAIN calls : SelectTask(c)
  \/ \E c \in DOMAIN calls : ComputeArchive(c)
  \/ \E c \in DOMAIN calls : WriteTask(c)

SpecBoard == Init /\ [][NextBoard]_vars

(***************************************************************************)
(* Vocabulary of the properties                                            *)
(***************************************************************************)
Last(s) == s[Len(s)]

done(c) == calls[c].pc = "done"
committed(c) == done(c) /\ calls[c].result = "ok"
allReturned == calls # <<>> /\ \A c \in DOMAIN calls : done(c)

mutations == {"updateTask", "archiveTask", "unarchiveTask"}

\* the call's genuine status change: its status differs from the status
\* stored immediately before its write
genuineChange(c) ==
  /\ committed(c) /\ calls[c].op = "updateTask"
  /\ "status" \in DOMAIN calls[c].updates
  /\ calls[c].updates.status # calls[c].before.status

\* a row without its timestamps
statusesOf(history) == [i \in DOMAIN history |-> Without(history[i], "timestamp")]
content(row) ==
  [k \in (DOMAIN row) \ {"updatedAt", "createdAt"} |->
     IF k = "history" THEN statusesOf(row[k]) ELSE row[k]]

\* updateTask run alone: select, compute and write with nothing in between
updateAlone(row, updates) == SetRow(row, updateData(row, updates, 0, 0))

Orders(n) == {f \in [1..n -> 1..n] : \A i, j \in 1..n : f[i] = f[j] => i = j}

RECURSIVE appliedInOrder(_, _, _)
appliedInOrder(row, order, k) ==
  IF k = 0 THEN row
  ELSE updateAlone(appliedInOrder(row, order, k - 1), calls[order[k]].updates)

\* the history entry a call appended to its snapshot, as a set
appendedEntry(c) ==
  IF calls[c].op \in {"updateTask", "archiveTask"} /\ calls[c].data # NoRow
     /\ "history" \in DOMAIN calls[c].data
     /\ Len(calls[c].data.history) > Len(calls[c].cur.history)
    THEN {Last(calls[c].data.history)}
    ELSE {}

entriesOf(history) == {history[i] : i \in DOMAIN history}

(***************************************************************************)
(* Properties                                                              *)
(***************************************************************************)

\* C1: once all the concurrent updateTask calls on task 1 have returned, the
\* history of task 1 has gained exactly one entry per call whose status
\* differed from the status stored immediately before the call's write.
C1_NoLostUpdates ==
  allReturned =>
    Len(tasks[1].history) =
      Len(SeedTasks[1].history) + Cardinality({c \in DOMAIN calls : genuineChange(c)})

\* C2: every step leaves the stored history of every task a prefix of the
\* history stored after the step.
C2_HistoryAppendOnly ==
  [][\A id \in (DOMAIN tasks) \cap (DOMAIN tasks') :
       IsPrefix(tasks[id].history, tasks'[id].history)]_vars

\* C3: once all the concurrent updateTask calls on task 1 have returned, the
\* stored row (without timestamps) is the row that results from running the
\* same calls one at a time in some order.
C3_Linearizable ==
  allReturned =>
    \E order \in Orders(Len(calls)) :
      content(tasks[1]) = content(appliedInOrder(SeedTasks[1], order, Len(calls)))

\* C4: the row returned by an update contains the history entry of every
\* update that had returned before its write, and the fields set by the
\* update that committed immediately before it unless it sets them itself.
C4_AcknowledgedEffectsKept ==
  \A b \in DOMAIN calls : committed(b) =>
    \A a \in calls[b].acked :
      /\ appendedEntry(a) \subseteq entriesOf(calls[b].ret.history)
      /\ calls[b].acked = calls[a].acked \cup {a} =>
           \A k \in (DOMAIN calls[a].updates) \ ((DOMAIN calls[b].updates) \cup {"history"}) :
             calls[b].ret[k] = calls[a].updates[k]

\* C5: a call whose snapshot was overtaken by another committed write never
\* has its own write applied: it does not return a row.
C5_StaleWritesRejected ==
  \A c \in DOMAIN calls : (done(c) /\ calls[c].stale) => calls[c].result # "ok"

\* C6: the status of every stored task is the status of the last entry of
\* its history.
C6_StatusIsLastHistoryStatus ==
  \A id \in DOMAIN tasks :
    /\ Len(tasks[id].history) > 0
    /\ tasks[id].status = Last(tasks[id].history).status

\* C7: the updatedAt stored by a committed updateTask, archiveTask or
\* unarchiveTask is not earlier than the updatedAt it replaced (the claim
\* asks for strictly later; already "not earlier" fails).
C7_UpdatedAtNeverMovesBack ==
  \A c \in DOMAIN calls : (committed(c) /\ calls[c].op \in mutations) =>
    calls[c].ret.updatedAt >= calls[c].before.updatedAt

\* C8: every stored task has a version column whose value is 1 plus the
\* number of committed mutations of its id.
C8_VersionCountsMutations ==
  \A id \in DOMAIN tasks :
    /\ "version" \in DOMAIN tasks[id]
    /\ tasks[id].version =
         1 + Cardinality({c \in DOMAIN calls :
                            committed(c) /\ calls[c].op \in mutations /\ calls[c].id = id})

\* the statuses the stage names of the model stand for
expectedStatus(name) ==
  IF name = Name_Backlog THEN "backlog"
  ELSE IF name = Name_InProgress THEN "in_progress"
  ELSE IF name = Name_Done THEN "done"
  ELSE IF name = Name_CANCELLED THEN "abandoned"
  ELSE IF name = Name_DoneActive THEN "in_progress"
  ELSE "none"

\* C9: the row a createTask inserts and returns has a history of exactly one
\* entry without a note whose status is the row's status: the payload's
\* status if it has one, otherwise the status of the name of the stage its
\* stageId references (the name the call looked up, or the name the stage has
\* when the row is inserted).
C9_CreateYieldsInitialHistory ==
  [][\A c \in DOMAIN calls :
       (calls[c].pc = "insert" /\ calls'[c].result = "ok") =>
         LET row == calls'[c].ret
             payload == calls[c].updates
         IN /\ tasks'[row.id] = row
            /\ Len(row.history) = 1
            /\ DOMAIN row.history[1] = {"status", "timestamp"}
            /\ row.history[1].status = row.status
            /\ IF "status" \in DOMAIN payload
                 THEN row.status = payload.status
                 ELSE \/ row.status = expectedStatus(stages[row.stageId].name)
                      \/ /\ calls[c].cur # NoRow
                         /\ row.status = expectedStatus(calls[c].cur.name)]_vars

\* C10: the row returned by archiveTask is archived, has the status stored
\* before the write, and its history is the history stored before the write
\* plus one entry with note "Archived" and that status.
C10_ArchiveAlwaysLogs ==
  \A c \in DOMAIN calls : (committed(c) /\ calls[c].op = "archiveTask") =>
    LET row == calls[c].ret
        old == calls[c].before
    IN /\ row.archived
       /\ row.status = old.status
       /\ Len(row.history) = Len(old.history) + 1
       /\ IsPrefix(old.history, row.history)
       /\ Last(row.history).note = "Archived"
       /\ Last(row.history).status = old.status

\* C11: once concurrent updateTask calls on task 1 none of which sets a
\* status have all returned, every one of them returned a row, every field
\* set by only one of them has that call's value in the stored row, and the
\* stored history is the history from before the calls.
noStatusPatch(c) == calls[c].op = "updateTask" /\ "status" \notin DOMAIN calls[c].updates

setsField(c, k) == k \in DOMAIN calls[c].updates

C12_ArchiveAndUpdateBothLogged ==
  \A a, u \in DOMAIN calls :
    ( /\ committed(a) /\ calls[a].op = "archiveTask"
      /\ committed(u) /\ calls[u].op = "updateTask"
      /\ calls[a].id = calls[u].id
      /\ calls[a].id \in DOMAIN tasks
      /\ appendedEntry(u) # {} ) =>
        (appendedEntry(a) \cup appendedEntry(u)) \subseteq entriesOf(tasks[calls[a].id].history)

\* C13: a step in which updateTask, archiveTask or unarchiveTask accesses the
\* store for an id that has no row ends the call with undefined (404 for the
\* PATCH route) and changes no table and no serial; a call that has returned
\* never acts again.
C13_NotFoundIsTerminalAndSideEffectFree ==
  [][\A c \in DOMAIN calls :
       /\ ( /\ calls[c].op \in mutations
            /\ calls[c].pc \in {"select", "write"}
            /\ calls'[c].pc # calls[c].pc
            /\ calls[c].id \notin DOMAIN tasks ) =>
              /\ calls'[c].pc = "done"
              /\ calls'[c].result = "undefined"
              /\ calls'[c].ret = NoRow
              /\ calls[c].op = "updateTask" => patchResponse(calls'[c].result) = 404
              /\ tasks' = tasks /\ stages' = stages
              /\ nextTaskId' = nextTaskId
       /\ done(c) => calls'[c] = calls[c]]_vars

\* C13 witness: task 1 was deleted and an unarchiveTask for it then found no
\* row and returned undefined.
C13_Witness ==
  \E c, d \in DOMAIN calls :
    /\ calls[d].op = "deleteTask" /\ done(d)
    /\ calls[c].op = "unarchiveTask" /\ done(c) /\ calls[c].result = "undefined"
    /\ calls[c].id = calls[d].id

\* C14: the DELETE route answers 204 when the deleteTask removed a row and
\* 404 when no row with that id was stored.
C14_DeleteReportsNotFound ==
  \A c \in DOMAIN calls : (calls[c].op = "deleteTask" /\ done(c)) =>
    deleteResponse(calls[c].result) = IF calls[c].before = NoRow THEN 404 ELSE 204

\* C15: the step of the history endpoint changes no table and no serial; for
\* a stored task it answers 200 with exactly the stored history, entry by
\* entry in stored order, and for an id without a row it answers 404.
C15_HistoryEndpointReadOnly ==
  [][\A c \in DOMAIN calls :
       (calls[c].pc = "get" /\ calls'[c].pc = "done") =>
         /\ tasks' = tasks /\ stages' = stages
         /\ nextTaskId' = nextTaskId /\ nextStageId' = nextStageId
         /\ IF calls[c].id \in DOMAIN tasks
              THEN /\ historyResponse(calls'[c].result) = 200
                   /\ Len(calls'[c].ret) = Len(tasks[calls[c].id].history)
                   /\ \A i \in 1..Len(calls'[c].ret) :
                        calls'[c].ret[i] = tasks[calls[c].id].history[i]
              ELSE /\ historyResponse(calls'[c].result) = 404
                   /\ calls'[c].ret = NoRow]_vars

\* C15 witness: the endpoint returned a history of two different entries.
C15_Witness ==
  \E c \in DOMAIN calls :
    /\ calls[c].op = "getHistory" /\ committed(c)
    /\ Len(calls[c].ret) = 2
    /\ calls[c].ret[1] # calls[c].ret[2]

\* the checks of verifyTaskIntegrity on one history entry
entryIntact(entry) ==
  /\ DOMAIN entry \subseteq {"status", "timestamp", "note"}
  /\ "status" \in DOMAIN entry /\ entry.status \in Statuses
  /\ "timestamp" \in DOMAIN entry /\ entry.timestamp \in Nat

\* C16: whatever updates have run or are running against the task, the task
\* is stored, its history is a sequence, and every entry of it has a status
\* and a timestamp.
C16_HistoryIntact ==
  /\ 1 \in DOMAIN tasks
  /\ "history" \in DOMAIN tasks[1]
  /\ DOMAIN tasks[1].history = 1..Len(tasks[1].history)
  /\ \A i \in 1..Len(tasks[1].history) : entryIntact(tasks[1].history[i])

\* C16 witness: two updates of different kinds overlapped (one is stale), both
\* returned, and the history has grown.
C16_Witness ==
  /\ allReturned
  /\ \E a, b \in DOMAIN calls :
       /\ "status" \in DOMAIN calls[a].updates
       /\ "status" \notin DOMAIN calls[b].updates
       /\ calls[a].stale \/ calls[b].stale
  /\ Len(tasks[1].history) > Len(SeedTasks[1].history)

\* a PATCH body outside the schema: a status or priority outside its enum,
\* or an effort outside 1..5
malformed(body) ==
  \/ "status" \in DOMAIN body /\ body.status \notin {"backlog", "in_progress", "done", "abandoned"}
  \/ "priority" \in DOMAIN body /\ body.priority \notin {"low", "normal", "high", "critical"}
  \/ "effort" \in DOMAIN body /\ body.effort \notin {0, 1, 2, 3, 4, 5}

\* C17: a PATCH whose body is malformed is answered 400 in the step that
\* receives it, with the tables untouched, and its call never holds a row it
\* read, data to write or a row it wrote.
C17_InvalidPatchRejectedBeforeStore ==
  [][\A c \in DOMAIN calls' :
       (calls'[c].op = "updateTask" /\ malformed(calls'[c].updates)) =>
         /\ calls'[c].pc = "done"
         /\ patchResponse(calls'[c].result) = 400
         /\ calls'[c].cur = NoRow /\ calls'[c].data = NoRow /\ calls'[c].ret = NoRow
         /\ c \notin DOMAIN calls => tasks' = tasks]_vars

\* C17 witness: a status outside the enum was rejected for stored task 1 while
\* a well-formed update of it had selected its row and not yet written.
C17_Witness ==
  \E c, d \in DOMAIN calls :
    /\ calls[c].id = 1 /\ calls[c].updates = [status |-> "archived"]
    /\ calls[c].result = "ZodError"
    /\ calls[d].id = 1 /\ calls[d].pc = "write"
    /\ tasks[1] = SeedTasks[1]

\* the alphabet in its two cases
UpperCase == <<"A", "B", "C", "D", "E", "F", "G", "H", "I", "J", "K", "L", "M",
               "N", "O", "P", "Q", "R", "S", "T", "U", "V", "W", "X", "Y", "Z">>
LowerCase == <<"a", "b", "c", "d", "e", "f", "g", "h", "i", "j", "k", "l", "m",
               "n", "o", "p", "q", "r", "s", "t", "u", "v", "w", "x", "y", "z">>

\* the characters x and y are the same up to case
sameLetter(x, y) ==
  x = y \/ \E i \in DOMAIN UpperCase : {x, y} = {UpperCase[i], LowerCase[i]}

\* the word occurs in the name at some position, case ignored
containsWord(name, word) ==
  \E at \in 0..(Len(name) - Len(word)) :
    \A j \in 1..Len(word) : sameLetter(name[at + j], word[j])

containsAny(name, words) == \E w \in words : containsWord(name, w)

\* the status the priority rule gives a stage name
statusByPriority(name) ==
  IF containsAny(name, {kw_progress, kw_doing, kw_active}) THEN "in_progress"
  ELSE IF containsAny(name, {kw_done, kw_complete, kw_finished}) THEN "done"
  ELSE IF containsAny(name, {kw_abandon, kw_cancel}) THEN "abandoned"
  ELSE "backlog"

inferredBy(c) ==
  /\ calls[c].op = "createTask" /\ calls[c].pc \in {"insert", "done"}
  /\ "status" \notin DOMAIN calls[c].updates
  /\ calls[c].cur # NoRow

\* C18: the status createTask infers from the stage name it looked up is
\* in_progress if the name contains progress, doing or active in any case;
\* otherwise done if it contains done, complete or finished; otherwise
\* abandoned if it contains abandon or cancel; otherwise backlog.
C18_InferenceByPriority ==
  \A c \in DOMAIN calls :
    inferredBy(c) => calls[c].data.status = statusByPriority(calls[c].cur.name)

\* C18 witness: a name holding a word of the done group before an upper-case
\* word of the progress group was inferred in_progress, and the row is stored
\* with that status.
C18_Witness ==
  \E c \in DOMAIN calls :
    /\ inferredBy(c) /\ committed(c)
    /\ calls[c].cur.name = Word_Undone \o <<" ">> \o Word_DOING
    /\ calls[c].ret.status = "in_progress"

\* an updateTask that moved a task to another stage without naming a status
movedWithoutStatus(c) ==
  /\ calls[c].op = "updateTask" /\ committed(c)
  /\ "status" \notin DOMAIN calls[c].updates
  /\ "stageId" \in DOMAIN calls[c].updates
  /\ calls[c].updates.stageId # calls[c].before.stageId
  /\ calls[c].updates.stageId \in DOMAIN stages

\* C19: an updateTask that moved a task to another stage without naming a
\* status returns the row with the status of the target stage's name, and
\* with one more history entry of that status when the status changed.
C19_StageMoveInfersStatus ==
  \A c \in DOMAIN calls :
    movedWithoutStatus(c) =>
      LET target == statusByPriority(stages[calls[c].updates.stageId].name) IN
      /\ calls[c].ret.status = target
      /\ target # calls[c].before.status =>
           /\ Len(calls[c].ret.history) = Len(calls[c].before.history) + 1
           /\ Last(calls[c].ret.history).status = target

\* an updateTask with a status in its patch that ran alone: no other call
\* wrote the row between its select and its write
aloneWithStatus(c) ==
  /\ calls[c].op = "updateTask" /\ committed(c)
  /\ "status" \in DOMAIN calls[c].updates
  /\ ~calls[c].stale

\* C20: an updateTask with status s that ran alone on a task of status c
\* returns the row with status s; if s differs from c its history is the
\* former history followed by the one entry {status: s, timestamp} without a
\* note, and if s equals c its history is the former history.
C20_ExplicitStatusAppendsOnce ==
  \A c \in DOMAIN calls :
    aloneWithStatus(c) =>
      /\ calls[c].ret.status = calls[c].updates.status
      /\ IF calls[c].updates.status # calls[c].before.status
           THEN /\ Len(calls[c].ret.history) = Len(calls[c].before.history) + 1
                /\ IsPrefix(calls[c].before.history, calls[c].ret.history)
                /\ Last(calls[c].ret.history).status = calls[c].updates.status
                /\ DOMAIN Last(calls[c].ret.history) = {"status", "timestamp"}
           ELSE calls[c].ret.history = calls[c].before.history

\* C20 witness: one update changed the status and appended its entry, and a
\* later update with the status the task then had appended nothing.
C20_Witness ==
  \E c, d \in DOMAIN calls :
    /\ aloneWithStatus(c) /\ aloneWithStatus(d)
    /\ calls[c].updates.status # calls[c].before.status
    /\ calls[d].before = calls[c].ret
    /\ calls[d].updates.status = calls[d].before.status
    /\ tasks[1].history = calls[c].ret.history

\* an updateTask whose patch names neither a status nor a stage
plainFieldUpdate(c) ==
  /\ calls[c].op = "updateTask" /\ committed(c)
  /\ "status" \notin DOMAIN calls[c].updates
  /\ "stageId" \notin DOMAIN calls[c].updates

\* C21: an updateTask whose patch names neither a status nor a stage returns
\* the row with the status and the history the stored row had immediately
\* before its write, whatever was committed between its read and its write.
C21_PlainUpdateKeepsStatusAndHistory ==
  \A c \in DOMAIN calls :
    plainFieldUpdate(c) =>
      /\ calls[c].ret.status = calls[c].before.status
      /\ calls[c].ret.history = calls[c].before.history

\* a committed call whose patch contains archived: true
archivingCall(c) ==
  /\ committed(c)
  /\ \/ calls[c].op = "archiveTask"
     \/ /\ calls[c].op = "updateTask"
        /\ "archived" \in DOMAIN calls[c].updates
        /\ calls[c].updates.archived

\* C22: a call whose patch contains archived: true, be it archiveTask or an
\* updateTask, returns the row with one more history entry than was stored,
\* the last one carrying the stored status and the note "Archived".
C22_ArchivedPatchLogsEntry ==
  \A c \in DOMAIN calls :
    archivingCall(c) =>
      /\ Len(calls[c].ret.history) = Len(calls[c].before.history) + 1
      /\ Last(calls[c].ret.history).status = calls[c].before.status
      /\ "note" \in DOMAIN Last(calls[c].ret.history)
      /\ Last(calls[c].ret.history).note = "Archived"

\* C23: in every step, a row that stays stored keeps its id and its
\* createdAt, a row that is inserted gets the next serial as id and the time
\* of the insert as createdAt, and no stored history holds an entry of a
\* history that came in a request body.
C23_EngineFieldsNotSettable ==
  [][/\ \A i \in DOMAIN tasks' :
          /\ tasks'[i].id = i
          /\ i \in DOMAIN tasks => tasks'[i].createdAt = tasks[i].createdAt
          /\ i \notin DOMAIN tasks => (i = nextTaskId /\ tasks'[i].createdAt = now')
          /\ entriesOf(tasks'[i].history) \cap entriesOf(PayloadHistory) = {}
     /\ DOMAIN tasks \subseteq DOMAIN tasks']_vars

\* C23 witness: a create whose body named id 1 and createdAt and an update
\* whose body carried a history and a status have both stored their rows.
C23_Witness ==
  /\ 4 \in DOMAIN tasks /\ tasks[4].stageId = 2
  /\ \E c \in DOMAIN calls :
       /\ calls[c].op = "updateTask" /\ committed(c)
       /\ "history" \in DOMAIN calls[c].updates
       /\ tasks[1].status = "done" /\ Len(tasks[1].history) = 2

\* C24: the status createTask inferred from the name of the stage it looked
\* up is the status the board, the Dashboard fallback and the migration give
\* that stage.
C24_InferenceAgreesEverywhere ==
  \A c \in DOMAIN calls :
    inferredBy(c) =>
      /\ getStatusFromStageName(calls[c].cur.name) = calls[c].data.status
      /\ getTaskStatus(calls[c].cur.name) = calls[c].data.status
      /\ migrationStatuses(stages, calls[c].cur.id) = {calls[c].data.status}

\* a createTask without a status whose stage lookup found no stage
missedStage(c) ==
  /\ calls[c].op = "createTask" /\ done(c)
  /\ calls[c].result # "ZodError"
  /\ "status" \notin DOMAIN calls[c].updates
  /\ calls[c].cur = NoRow

\* C25: a createTask without a status whose stageId referenced no stage when
\* it was looked up is answered 404 and has stored no row.
C25_MissingStageIsNotFound ==
  \A c \in DOMAIN calls :
    missedStage(c) =>
      /\ postResponse(calls[c].result) = 404
      /\ calls[c].ret = NoRow

\* the history entry createTask wrote for the task with this id: the seed's
\* entry, or the entry of the row the creating call returned
creationEntry(id) ==
  IF id \in DOMAIN SeedTasks THEN SeedTasks[id].history[1]
  ELSE LET c == CHOOSE c \in DOMAIN calls :
                  calls[c].op = "createTask" /\ committed(c) /\ calls[c].id = id
       IN calls[c].ret.history[1]

\* C26: every stored task has a non-empty history whose first entry is the
\* entry written at its creation.
C26_CreationEntryKept ==
  \A id \in DOMAIN tasks :
    /\ Len(tasks[id].history) >= 1
    /\ tasks[id].history[1] = creationEntry(id)

\* C26 witness: an archive and an update of task 1 overlapped, one of them
\* wrote from a stale snapshot, and the history still starts with the
\* creation entry.
C26_Witness ==
  /\ allReturned
  /\ \E a, u \in DOMAIN calls :
       /\ calls[a].op = "archiveTask" /\ calls[u].op = "updateTask"
       /\ calls[a].id = 1 /\ calls[u].id = 1
       /\ committed(a) /\ committed(u)
       /\ calls[a].stale \/ calls[u].stale
  /\ 1 \in DOMAIN tasks /\ Len(tasks[1].history) = 2
  /\ tasks[1].history[1] = SeedTasks[1].history[1]

\* C27: in every stored history the timestamps never decrease from one entry
\* to the next.
C27_HistoryTimestampsOrdered ==
  \A id \in DOMAIN tasks :
    \A i \in 1..(Len(tasks[id].history) - 1) :
      tasks[id].history[i].timestamp <= tasks[id].history[i + 1].timestamp

\* C27 witness: a call that computed its entry before another call's write
\* and wrote after it has left a history of two entries, the second later
\* than the first.
C27_Witness ==
  /\ \E c \in DOMAIN calls :
       /\ calls[c].op \in {"updateTask", "archiveTask"} /\ calls[c].id = 1
       /\ committed(c) /\ calls[c].stale
       /\ tasks[1] = calls[c].ret
  /\ Len(tasks[1].history) = 2
  /\ tasks[1].history[1].timestamp < tasks[1].history[2].timestamp

\* C28: when an updateTask or archiveTask that has read its row comes to its
\* write and the row is gone, the write changes no table, the call returns
\* undefined (404 for a PATCH), and the id of a committed deleteTask names no
\* stored row ever after.
C28_DeletedTaskNotResurrected ==
  [][/\ \A c \in DOMAIN calls :
          (/\ calls[c].op \in {"updateTask", "archiveTask"}
           /\ calls[c].pc = "write" /\ calls'[c].pc = "done"
           /\ calls[c].id \notin DOMAIN tasks) =>
            /\ tasks' = tasks
            /\ calls'[c].result = "undefined" /\ calls'[c].ret = NoRow
            /\ calls[c].op = "updateTask" => patchResponse(calls'[c].result) = 404
     /\ \A d \in DOMAIN calls' :
          (calls'[d].op = "deleteTask" /\ calls'[d].pc = "done") =>
            calls'[d].id \notin DOMAIN tasks']_vars

\* C28 witness: task 1 was deleted while an updateTask held its row, and that
\* call has returned undefined with no task 1 stored.
C28_Witness ==
  \E c, d \in DOMAIN calls :
    /\ calls[d].op = "deleteTask" /\ committed(d) /\ calls[d].before # NoRow
    /\ calls[c].op = "updateTask" /\ calls[c].id = calls[d].id
    /\ calls[c].cur # NoRow /\ calls[c].data # NoRow
    /\ done(c) /\ calls[c].result = "undefined"
    /\ calls[c].id \notin DOMAIN tasks

\* C29: the write of an unarchiveTask leaves every other row alone and makes
\* its row the row stored at that instant with archived false and updatedAt
\* the call's time: history, status and all other columns are the stored
\* ones, and the call returns that row.
C29_UnarchiveTouchesTwoColumns ==
  [][\A c \in DOMAIN calls :
       (/\ calls[c].op = "unarchiveTask"
        /\ calls[c].pc = "write" /\ calls'[c].pc = "done"
        /\ calls[c].id \in DOMAIN tasks) =>
         /\ DOMAIN tasks' = DOMAIN tasks
         /\ \A i \in DOMAIN tasks : i # calls[c].id => tasks'[i] = tasks[i]
         /\ tasks'[calls[c].id] =
              [tasks[calls[c].id] EXCEPT !.archived = FALSE,
                                         !.updatedAt = calls[c].data.updatedAt]
         /\ calls'[c].ret = tasks'[calls[c].id]]_vars

\* C29 witness: an unarchiveTask took its time before an updateTask of the
\* same task did and wrote after that update's write; the row it returned
\* holds the update's status and history entry.
C29_Witness ==
  \E u, c \in DOMAIN calls :
    /\ calls[u].op = "unarchiveTask" /\ committed(u)
    /\ calls[c].op = "updateTask" /\ committed(c) /\ calls[c].id = calls[u].id
    /\ calls[u].ret.updatedAt < calls[c].ret.updatedAt
    /\ Len(calls[c].ret.history) = 2
    /\ calls[u].ret.history = calls[c].ret.history
    /\ calls[u].ret.status = calls[c].updates.status
    /\ tasks[1] = calls[u].ret

\* C30: no two positions of the board's local task list hold the same id.
C30_NoDuplicateInActiveTasks ==
  \A i, j \in DOMAIN board.activeTasks :
    board.activeTasks[i].id = board.activeTasks[j].id => i = j

====
